---------------------------- MODULE Spec2Model ----------------------------
(***************************************************************************)
(* A model of best_hummer_q(traj, native), the fraction-of-native-contacts *)
(* routine of the notebook "Native contacts calculation".                  *)
(*                                                                         *)
(* Units.  Coordinates and distances are integers counting picometres      *)
(* (1 pm = 0.001 nm), so NATIVE_CUTOFF = 0.45 nm is 450.  The argument of  *)
(* np.exp, BETA_CONST * (r - LAMBDA_CONST * r0), is an integer counting    *)
(* 1/10000: with r, r0 in pm, BETA_CONST in 1/nm and LAMBDA_CONST = 18/10  *)
(* it is BETA_CONST * (10*r - 18*r0).                                      *)
(*                                                                         *)
(* Floating point.  The scores are float32 values in the code.  They are   *)
(* modelled as decimal floating-point numbers with a seven digit mantissa, *)
(* an exponent range ending where float32's ends, +inf and NaN: rounding,  *)
(* absorption (1 + tiny = 1), overflow of exp to +inf and 0/0 = NaN are    *)
(* all kept.  Only non-negative values occur.                              *)
(*                                                                         *)
(* Trajectories carry no unit cell (the notebook's structures print        *)
(* "without unitcells"), so md.compute_distances is the plain Euclidean    *)
(* distance.                                                               *)
(***************************************************************************)
EXTENDS Integers, Sequences, FiniteSets

(***************************************************************************)
(* Program constants (best_hummer_q, lines 37-39 and 48).                  *)
(***************************************************************************)
BETA_CONST == 50
LAMBDA_CONST_NUM == 18
LAMBDA_CONST_DEN == 10
NATIVE_CUTOFF == 450
RESIDUE_SEPARATION == 3

(***************************************************************************)
(* Decimal floating point: [k, m, e] is m * 10^(e-6) when k = "fin", with  *)
(* m = 0 (zero) or 10^6 <= m < 10^7.                                       *)
(***************************************************************************)
MantLo == 1000000
MantHi == 10000000
\* The decimal exponents of float32's largest and smallest values.
ExpMax == 38
ExpMin == -45

F(m, e) == [k |-> "fin", m |-> m, e |-> e]
Inf == [k |-> "inf", m |-> 0, e |-> 0]
NaN == [k |-> "nan", m |-> 0, e |-> 0]
Zero == F(0, 0)
One == F(MantLo, 0)
Half == F(5 * MantLo, 0 - 1)

IsFin(a) == a.k = "fin"

\* The element of a singleton set.  An operation on floats is written
\* Only({ e(a, b) : a \in {x}, b \in {y} }), which is e(x, y) with both
\* operands evaluated once, as in the code, before the operation is applied.
Only(S) == CHOOSE v \in S : TRUE

\* Bring an integer mantissa M (value M * 10^(e-6)) into [10^6, 10^7),
\* rounding half up when digits are dropped.
RECURSIVE Norm(_, _)
Norm(M, e) ==
  IF M = 0 THEN Zero
  ELSE IF M >= MantHi THEN Norm((M + 5) \div 10, e + 1)
  ELSE IF M < MantLo THEN Norm(M * 10, e - 1)
  ELSE F(M, e)

\* The range of float32: above it +inf, below it zero.
Clamp(x) ==
  Only({ IF ~IsFin(a) \/ a.m = 0 THEN a
         ELSE IF a.e > ExpMax THEN Inf
         ELSE IF a.e < ExpMin THEN Zero
         ELSE a : a \in {x} })

FromInt(n) == Norm(n, 6)

RECURSIVE Pow10(_)
Pow10(n) == IF n = 0 THEN 1 ELSE 10 * Pow10(n - 1)

\* a + b for non-negative a, b.
FAdd(x, y) ==
  Only({ IF a.k = "nan" \/ b.k = "nan" THEN NaN
         ELSE IF a.k = "inf" \/ b.k = "inf" THEN Inf
         ELSE IF a.m = 0 THEN b
         ELSE IF b.m = 0 THEN a
         ELSE LET hi == IF a.e >= b.e THEN a ELSE b
                  lo == IF a.e >= b.e THEN b ELSE a
                  d  == hi.e - lo.e
              IN IF d > 8 THEN hi
                 ELSE Clamp(Norm(hi.m + (lo.m + (Pow10(d) \div 2)) \div Pow10(d), hi.e))
         : a \in {x}, b \in {y} })

\* floor(x * y / 10^6) for mantissas x, y < 10^7, by long multiplication
\* over the base-100 digits of x (every intermediate stays below 2^31).
MulMant(x, y) ==
  LET top == x \div MantLo
      low == x % MantLo
      c0  == low % 100
      c1  == (low \div 100) % 100
      c2  == low \div 10000
      a0  == (c0 * y) \div 100
      a1  == (a0 + c1 * y) \div 100
      a2  == (a1 + c2 * y + 50) \div 100
  IN top * y + a2

FMulRaw(x, y) ==
  Only({ IF a.m = 0 \/ b.m = 0 THEN Zero
         ELSE Norm(MulMant(a.m, b.m), a.e + b.e) : a \in {x}, b \in {y} })

\* floor(x * 10^n / y) by long division: q, rem carried digit by digit.
RECURSIVE DivMant(_, _, _, _)
DivMant(q, rem, y, n) ==
  IF n = 0 THEN IF 2 * rem >= y THEN q + 1 ELSE q
  ELSE DivMant(q * 10 + (rem * 10) \div y, (rem * 10) % y, y, n - 1)

FDivRaw(x, y) ==
  Only({ Norm(DivMant(a.m \div b.m, a.m % b.m, b.m, 7), a.e - b.e - 1)
         : a \in {x}, b \in {y} })

\* a / b for non-negative a, b, with IEEE's special cases.
FDiv(x, y) ==
  Only({ IF a.k = "nan" \/ b.k = "nan" THEN NaN
         ELSE IF a.k = "inf" THEN IF b.k = "inf" THEN NaN ELSE Inf
         ELSE IF b.k = "inf" THEN Zero
         ELSE IF b.m = 0 THEN IF a.m = 0 THEN NaN ELSE Inf
         ELSE IF a.m = 0 THEN Zero
         ELSE Clamp(FDivRaw(a, b)) : a \in {x}, b \in {y} })

\* a <= b and a < b; every comparison with NaN is false.
FLe(a, b) ==
  IF a.k = "nan" \/ b.k = "nan" THEN FALSE
  ELSE IF b.k = "inf" THEN TRUE
  ELSE IF a.k = "inf" THEN FALSE
  ELSE IF a.m = 0 THEN TRUE
  ELSE IF b.m = 0 THEN FALSE
  ELSE a.e < b.e \/ (a.e = b.e /\ a.m <= b.m)

FLt(a, b) == FLe(a, b) /\ a # b

(***************************************************************************)
(* np.exp on float32.  The argument x counts 1/10000.  exp of each decimal *)
(* digit of |x| is tabulated (row p holds exp(d * 10^(p-5)), d = 0..9) and *)
(* the digits' exponentials are multiplied; a negative argument takes the  *)
(* reciprocal.  Above ln(FLT_MAX) = 88.7228 the result is +inf, below      *)
(* ln(2^-150) = -103.9721 it is zero.                                      *)
(***************************************************************************)
ExpOverflowArg == 887228
ExpUnderflowArg == 1039721

ExpTable ==
  << << F(1000000, 0), F(1000100, 0), F(1000200, 0), F(1000300, 0), F(1000400, 0),
        F(1000500, 0), F(1000600, 0), F(1000700, 0), F(1000800, 0), F(1000900, 0) >>,
     << F(1000000, 0), F(1001001, 0), F(1002002, 0), F(1003005, 0), F(1004008, 0),
        F(1005013, 0), F(1006018, 0), F(1007025, 0), F(1008032, 0), F(1009041, 0) >>,
     << F(1000000, 0), F(1010050, 0), F(1020201, 0), F(1030455, 0), F(1040811, 0),
        F(1051271, 0), F(1061837, 0), F(1072508, 0), F(1083287, 0), F(1094174, 0) >>,
     << F(1000000, 0), F(1105171, 0), F(1221403, 0), F(1349859, 0), F(1491825, 0),
        F(1648721, 0), F(1822119, 0), F(2013753, 0), F(2225541, 0), F(2459603, 0) >>,
     << F(1000000, 0), F(2718282, 0), F(7389056, 0), F(2008554, 1), F(5459815, 1),
        F(1484132, 2), F(4034288, 2), F(1096633, 3), F(2980958, 3), F(8103084, 3) >>,
     << F(1000000, 0), F(2202647, 4), F(4851652, 8), F(1068647, 13), F(2353853, 17),
        F(5184706, 21), F(1142007, 26), F(2515439, 30), F(5540622, 34), F(1220403, 39),
        F(2688117, 43) >> >>

\* exp(x / 10000) for x >= 0, unclamped.
ExpPos(x) ==
  LET d(p) == IF p = 6 THEN x \div 100000 ELSE (x \div Pow10(p - 1)) % 10
      t(p) == ExpTable[p][d(p) + 1]
  IN FMulRaw(FMulRaw(FMulRaw(t(6), t(5)), FMulRaw(t(4), t(3))),
             FMulRaw(t(2), t(1)))

\* Mutant of FExp: an overflowing exp yields NaN.
FExpOverflowNaN(x) ==
  IF x > ExpOverflowArg THEN NaN
  ELSE IF x < 0 - ExpUnderflowArg THEN Zero
  ELSE IF x >= 0 THEN Clamp(ExpPos(x))
  ELSE Clamp(FDivRaw(One, ExpPos(0 - x)))

FExp(x) ==
  IF x > ExpOverflowArg THEN Inf
  ELSE IF x < 0 - ExpUnderflowArg THEN Zero
  ELSE IF x >= 0 THEN Clamp(ExpPos(x))
  ELSE Clamp(FDivRaw(One, ExpPos(0 - x)))


(***************************************************************************)
(* Structures.  A structure (md.Trajectory) is [heavy, residue, xyz]:      *)
(* per atom whether it is a heavy (non-hydrogen) atom and its residue      *)
(* index, and a sequence of frames, each a sequence of points <<x, y, z>>. *)
(* Atom indices are 0-based as in the code; atom i is entry i + 1.         *)
(***************************************************************************)
n_atoms(s) == Len(s.residue)
n_frames(s) == Len(s.xyz)

Abs(x) == IF x < 0 THEN 0 - x ELSE x

\* The largest s in lo..hi with s * s <= n.
RECURSIVE SqrtSearch(_, _, _)
SqrtSearch(n, lo, hi) ==
  IF lo = hi THEN lo
  ELSE Only({ IF mid * mid <= n THEN SqrtSearch(n, mid, hi)
              ELSE SqrtSearch(n, lo, mid - 1) : mid \in {(lo + hi + 1) \div 2} })

\* sqrt(n) rounded to the nearest integer.
RoundSqrt(n) ==
  Only({ IF n - s * s > s THEN s + 1 ELSE s
         : s \in {SqrtSearch(n, 0, IF n < 46340 THEN n ELSE 46340)} })

\* The Euclidean distance of two points.
Dist(a, b) ==
  Only({ RoundSqrt(n) : n \in {(a[1] - b[1]) * (a[1] - b[1]) + (a[2] - b[2]) * (a[2] - b[2])
                               + (a[3] - b[3]) * (a[3] - b[3])} })

\* The distance of atoms pr[1], pr[2] in one frame.
PairDist(frame, pr) == Dist(frame[pr[1] + 1], frame[pr[2] + 1])

\* Mutant of select_atom_indices: every atom selected.
select_all_atoms(s) == [i \in 1..n_atoms(s) |-> i - 1]

\* native.topology.select_atom_indices('heavy'): the heavy atoms' indices,
\* ascending.
select_atom_indices(s) ==
  SelectSeq([i \in 1..n_atoms(s) |-> i - 1], LAMBDA i : s.heavy[i + 1])

\* Mutant of combinations: the pairs of neighbouring entries only.
combinationsAdjacent(s) == [k \in 1..(Len(s) - 1) |-> << s[k], s[k + 1] >>]

\* itertools.combinations(s, 2): the pairs <<s[a], s[b]>>, a < b, in
\* lexicographic order of (a, b).
RECURSIVE combinations(_)
combinations(s) ==
  IF Len(s) < 2 THEN << >>
  ELSE [k \in 1..(Len(s) - 1) |-> << s[1], s[k + 1] >>] \o combinations(Tail(s))

\* np.array(list of pairs): n rows of 2 columns, but a 1-dimensional array
\* of length 0 when the list is empty.
np_array(rows) == [ndim |-> IF rows = << >> THEN 1 ELSE 2, rows |-> rows]

\* The condition of the comprehension at lines 47-48.
FarApart(s, pr) ==
  Abs(s.residue[pr[1] + 1] - s.residue[pr[2] + 1]) > RESIDUE_SEPARATION

\* Lines 45-48.
HeavyPairs(s, hv) ==
  np_array(SelectSeq(combinations(hv), LAMBDA pr : FarApart(s, pr)))

\* md.compute_distances(s, pairs): ValueError unless pairs is 2-dimensional
\* with every index in 0..n_atoms-1; otherwise one row per frame of s
\* holding each pair's distance in that frame.
compute_distances(s, pairs) ==
  IF pairs.ndim # 2
     \/ \E k \in 1..Len(pairs.rows) : \E c \in 1..2 :
          pairs.rows[k][c] < 0 \/ pairs.rows[k][c] >= n_atoms(s)
  THEN [err |-> "ValueError", val |-> << >>]
  ELSE [err |-> "none",
        val |-> [f \in 1..n_frames(s) |->
                   [k \in 1..Len(pairs.rows) |-> PairDist(s.xyz[f], pairs.rows[k])]]]

\* Mutant of FirstFrame: native[-1], the last frame.
LastFrame(s) == [s EXCEPT !.xyz = << s.xyz[Len(s.xyz)] >>]

\* native[0]: the structure holding the first frame only.
FirstFrame(s) == [s EXCEPT !.xyz = << s.xyz[1] >>]

\* Mutant of MaskRows: the kept rows come out last first.
RECURSIVE MaskRowsReversed(_, _)
MaskRowsReversed(rows, d) ==
  IF rows = << >> THEN << >>
  ELSE MaskRowsReversed(Tail(rows), Tail(d))
       \o (IF d[1] < NATIVE_CUTOFF THEN << rows[1] >> ELSE << >>)

\* heavy_pairs[heavy_pairs_distances < NATIVE_CUTOFF] (line 53): boolean
\* mask indexing keeps the rows whose distance is below the cutoff, in order.
RECURSIVE MaskRows(_, _)
MaskRows(rows, d) ==
  IF rows = << >> THEN << >>
  ELSE (IF d[1] < NATIVE_CUTOFF THEN << rows[1] >> ELSE << >>)
       \o MaskRows(Tail(rows), Tail(d))

\* Mutant of NativeContacts: the cutoff itself admitted (<= for <).
NativeContactsInclusive(hp, d) ==
  [ndim |-> 2,
   rows |-> LET kept == SelectSeq([k \in 1..Len(d) |-> << hp.rows[k], d[k] >>],
                                  LAMBDA e : e[2] <= NATIVE_CUTOFF)
            IN [k \in 1..Len(kept) |-> kept[k][1]]]

NativeContacts(hp, d) == [ndim |-> 2, rows |-> MaskRows(hp.rows, d)]

\* Mutants of ExpArg: the tolerance factor applied to the frame distance
\* instead of the native one; the difference taken the other way round.
ExpArgSwapped(rf, rn) ==
  BETA_CONST * (LAMBDA_CONST_NUM * rf - LAMBDA_CONST_DEN * rn)
ExpArgNegated(rf, rn) ==
  BETA_CONST * (LAMBDA_CONST_NUM * rn - LAMBDA_CONST_DEN * rf)

\* Mutant of ExpArg: the tolerance factor LAMBDA_CONST left out.
ExpArgNoTolerance(rf, rn) == BETA_CONST * LAMBDA_CONST_DEN * (rf - rn)

\* The argument of np.exp, counted in 1/10000.
ExpArg(rf, rn) == BETA_CONST * (LAMBDA_CONST_DEN * rf - LAMBDA_CONST_NUM * rn)

\* Mutant of Sigmoid: half of BETA_CONST.
SigmoidHalfBeta(rf, rn) ==
  FDiv(One, FAdd(One, FExp((BETA_CONST \div 2)
                           * (LAMBDA_CONST_DEN * rf - LAMBDA_CONST_NUM * rn))))

\* Mutant of Sigmoid: exp / (1 + exp), the complement of the score.
SigmoidComplement(rf, rn) ==
  FDiv(FExp(ExpArg(rf, rn)), FAdd(One, FExp(ExpArg(rf, rn))))

\* 1.0 / (1 + np.exp(BETA_CONST * (r - LAMBDA_CONST * r0))), one element.
Sigmoid(rf, rn) == FDiv(One, FAdd(One, FExp(ExpArg(rf, rn))))

RECURSIVE FSum(_)
FSum(row) ==
  Only({ IF s = << >> THEN Zero ELSE FAdd(s[1], FSum(Tail(s))) : s \in {row} })

\* np.mean of one row: the sum over the row divided by its length (0/0 is
\* NaN for a row of length 0).
FMean(row) == Only({ FDiv(FSum(s), FromInt(Len(s))) : s \in {row} })

\* Mutants of ScoreRows: LAMBDA_CONST left out; the mean taken along axis 0.
ScoreRowsNoLambda(rr, rr0) ==
  [f \in 1..Len(rr) |->
     FMean([k \in 1..Len(rr[f]) |->
              FDiv(One, FAdd(One, FExp(BETA_CONST * LAMBDA_CONST_DEN
                                       * (rr[f][k] - rr0[1][k]))))])]
ScoreRowsAxis0(rr, rr0) ==
  [k \in 1..Len(rr0[1]) |->
     FMean([f \in 1..Len(rr) |-> Sigmoid(rr[f][k], rr0[1][k])])]

\* Mutant of ScoreRows: the trajectory's first frame taken as the reference
\* conformation.
ScoreRowsFromFirstFrame(rr, rr0) ==
  [f \in 1..Len(rr) |->
     FMean([k \in 1..Len(rr[f]) |-> Sigmoid(rr[f][k], rr[1][k])])]

\* Mutant of ScoreRows: from the second frame on, a frame's score averaged
\* with the score of the frame before it.
ScoreRowsSmoothed(rr, rr0) ==
  LET own(f) == FMean([k \in 1..Len(rr[f]) |-> Sigmoid(rr[f][k], rr0[1][k])])
  IN [f \in 1..Len(rr) |->
        IF f = 1 THEN own(1) ELSE FDiv(FAdd(own(f - 1), own(f)), FromInt(2))]

\* Line 61: r has one row per frame, r0 one row; r0 is broadcast over the
\* frames and the mean is taken along axis 1 (over the pairs).
ScoreRows(rr, rr0) ==
  [f \in 1..Len(rr) |-> FMean([k \in 1..Len(rr[f]) |-> Sigmoid(rr[f][k], rr0[1][k])])]

\* The RuntimeWarnings line 61 raises.
ScoreWarnings(rr, rr0) ==
  {"overflow encountered in exp" : x \in
     {w \in {<<f, k>> : f \in 1..Len(rr), k \in 1..Len(rr0[1])} :
        ExpArg(rr[w[1]][w[2]], rr0[1][w[2]]) > ExpOverflowArg}}
  \cup {"Mean of empty slice" : x \in {f \in 1..Len(rr) : Len(rr0[1]) = 0}}

\* Lines 42-53 as a function of the native structure: the exception raised,
\* or "none" and the array native_contacts.
select_native_contacts(nat) ==
  LET hp == HeavyPairs(nat, select_atom_indices(nat))
      d  == compute_distances(FirstFrame(nat), hp)
  IN IF d.err # "none" THEN [err |-> d.err, pairs |-> << >>]
     ELSE [err |-> "none", pairs |-> NativeContacts(hp, d.val[1]).rows]

\* best_hummer_q as a function of its arguments: the exception raised, or
\* "none" and the returned array q.
best_hummer_q(t, nat) ==
  LET hv == select_atom_indices(nat)
      hp == HeavyPairs(nat, hv)
      d  == compute_distances(FirstFrame(nat), hp)
  IN IF d.err # "none" THEN [raised |-> d.err, q |-> << >>]
     ELSE LET nc  == NativeContacts(hp, d.val[1])
              rr  == compute_distances(t, nc)
              rr0 == compute_distances(FirstFrame(nat), nc)
          IN IF rr.err # "none" THEN [raised |-> rr.err, q |-> << >>]
             ELSE IF rr0.err # "none" THEN [raised |-> rr0.err, q |-> << >>]
             ELSE [raised |-> "none", q |-> ScoreRows(rr.val, rr0.val)]

(***************************************************************************)
(* Inputs.  Bounds of the model: the number of atoms of the native         *)
(* structure and the largest number of frames of a trajectory.             *)
(***************************************************************************)
NAtoms == 3
MaxFrames == 2

Origin == << 0, 0, 0 >>
\* Points of the native conformations: from the origin at 250 (a contact),
\* at 450 (exactly the cutoff) and at 500 (beyond it).
NativePts == { Origin, << 150, 200, 0 >>, << 450, 0, 0 >>, << 0, 0, 500 >> }
\* Points of the trajectory frames: near ones, and one far enough away for
\* np.exp to overflow.
FramePts == { Origin, << 150, 200, 0 >>, << 450, 0, 0 >>, << 0, 0, 4500 >> }
\* Residue indices: 0 and 3 are exactly RESIDUE_SEPARATION apart, 3 and 7 one more.
ResidueIdx == { 0, 3, 7 }
NearPts == { Origin, << 150, 200, 0 >> }

\* Sequences of length n over S whose first entry is a member of S0.
SeqsFrom(S0, S, n) == { s \in [1..n -> S] : n = 0 \/ s[1] \in S0 }

\* Trajectories of at most n frames over the frame set Fr.
TrajsUpTo(Fr, n) == UNION { [1..k -> Fr] : k \in 0..n }

\* Trajectories of at most n frames: the first frame from First, the later
\* ones from Later.
TrajsFrom(First, Later, n) ==
  { t \in TrajsUpTo(First \cup Later, n) :
      \A k \in 1..Len(t) : t[k] \in (IF k = 1 THEN First ELSE Later) }

Structure(hv, res, frames) == [heavy |-> hv, residue |-> res, xyz |-> frames]

AllHeavy(n) == [i \in 1..n |-> TRUE]
\* Residues 0, 4, 8, ...: every pair of atoms is far apart in sequence.
SpreadResidues(n) == [i \in 1..n |-> (RESIDUE_SEPARATION + 1) * (i - 1)]

\* Selection inputs: every heaviness assignment, every residue assignment
\* that gives the first atom residue 0 (residues count only by their
\* differences), atoms placed on NativePts; the trajectory is the native
\* structure itself.
SelectionInputs ==
  { << nat, nat >> : nat \in
      { Structure(hv, res, << pos >>) :
          hv \in [1..NAtoms -> BOOLEAN],
          res \in SeqsFrom({0}, ResidueIdx, NAtoms),
          pos \in SeqsFrom({Origin}, NativePts, NAtoms) } }

\* Frames of three atoms, the first at the origin.
TripleFrames(P) == { << Origin, a, b >> : a \in P, b \in P }
TripleHeavy == << TRUE, TRUE, TRUE >>
TripleResidues == << 0, 4, 8 >>

\* Scoring inputs: three heavy atoms, pairwise far apart in sequence; the
\* native conformation over NativePts and every trajectory of at most
\* MaxFrames frames, the first over FramePts and the later ones over
\* NearPts.
ScoringInputs ==
  { << Structure(TripleHeavy, TripleResidues, fr),
       Structure(TripleHeavy, TripleResidues, << pos >>) >> :
      fr \in TrajsFrom(TripleFrames(FramePts), TripleFrames(NearPts), MaxFrames),
      pos \in TripleFrames(NativePts) }

\* Mismatched inputs: a one-frame trajectory whose atom count or residue
\* assignment differs from the native structure's.
MismatchTrajs(n) ==
  { Structure(AllHeavy(n), res, << pos >>) :
      res \in {SpreadResidues(n), [i \in 1..n |-> 0]},
      pos \in SeqsFrom({Origin}, NearPts, n) }

MismatchInputs ==
  { << t, Structure(AllHeavy(NAtoms), SpreadResidues(NAtoms), << npos >>) >> :
      t \in UNION { MismatchTrajs(n) : n \in (NAtoms - 1)..(NAtoms + 1) },
      npos \in SeqsFrom({Origin}, NearPts, NAtoms) }

\* Native structures of two frames: the first over NearPts, the later one
\* over NativePts; the trajectory has at most one frame over NearPts.
MultiFrameInputs ==
  { << Structure(TripleHeavy, TripleResidues, fr),
       Structure(TripleHeavy, TripleResidues, << first, later >>) >> :
      fr \in TrajsUpTo(TripleFrames(NearPts), 1),
      first \in TripleFrames(NearPts),
      later \in TripleFrames(NativePts) }

\* Every coordinate of a frame multiplied by c.
Scaled(frame, c) == [i \in 1..Len(frame) |-> [j \in 1..3 |-> c * frame[i][j]]]

\* Native conformations with pair distances of 0.3 and 0.4 nm, of 0.3 and
\* 0.5 nm, of 0.1 and 0.02 nm, of 0.1 and 0.3 nm, and of 0.001 and 0.02 nm.
ScenarioFrames ==
  { << Origin, << 300, 0, 0 >>, << 0, 400, 0 >> >>,
    << Origin, << 300, 0, 0 >>, << 0, 500, 0 >> >>,
    << Origin, << 100, 0, 0 >>, << 0, 20, 0 >> >>,
    << Origin, << 100, 0, 0 >>, << 0, 300, 0 >> >>,
    << Origin, << 1, 0, 0 >>, << 0, 20, 0 >> >> }

\* Scenario inputs: the trajectory is the native conformation itself, or the
\* native conformation with every distance multiplied by
\* 10 * LAMBDA_CONST = 18.
ScenarioInputs ==
  { << Structure(TripleHeavy, TripleResidues, << Scaled(pos, c) >>),
       Structure(TripleHeavy, TripleResidues, << pos >>) >> :
      pos \in ScenarioFrames,
      c \in {1, LAMBDA_CONST_NUM} }

\* Native structures whose atoms all belong to one residue, with every
\* choice of heavy atoms; the trajectory is the native structure itself.
CloseResidueInputs ==
  { << nat, nat >> : nat \in
      { Structure(hv, [i \in 1..NAtoms |-> 0], << [i \in 1..NAtoms |-> Origin] >>) :
          hv \in [1..NAtoms -> BOOLEAN] } }

\* Whether two structures share a topology: atom count and residues.
SameTopology(a, b) == a.residue = b.residue

(***************************************************************************)
(* The call best_hummer_q(traj, native), one action per statement.         *)
(***************************************************************************)
VARIABLES
  traj, native,            \* the arguments
  pc,                      \* the line about to run, "done" or "raised"
  heavy, heavy_pairs, heavy_pairs_distances, native_contacts, r, r0, q,
  stdout,                  \* what print has written
  warnings,                \* the RuntimeWarnings issued
  raised                   \* the exception that ended the call, or "none"

vars == << traj, native, pc, heavy, heavy_pairs, heavy_pairs_distances,
           native_contacts, r, r0, q, stdout, warnings, raised >>

NoArray == [ndim |-> 0, rows |-> << >>]

\* The call about to run its first statement, on arguments from Inputs.
InitWith(Inputs) ==
  /\ \E arg \in Inputs : traj = arg[1] /\ native = arg[2]
  /\ pc = "L42"
  /\ heavy = << >>
  /\ heavy_pairs = NoArray
  /\ heavy_pairs_distances = << >>
  /\ native_contacts = NoArray
  /\ r = << >>
  /\ r0 = << >>
  /\ q = << >>
  /\ stdout = << >>
  /\ warnings = {}
  /\ raised = "none"

Init ==
  InitWith(SelectionInputs \cup ScoringInputs \cup MismatchInputs
           \cup MultiFrameInputs \cup ScenarioInputs)

\* Line 42.
SelectHeavy ==
  /\ pc = "L42"
  /\ heavy' = select_atom_indices(native)
  /\ pc' = "L45"
  /\ UNCHANGED << traj, native, heavy_pairs, heavy_pairs_distances,
                  native_contacts, r, r0, q, stdout, warnings, raised >>

\* Lines 45-48.
BuildHeavyPairs ==
  /\ pc = "L45"
  /\ heavy_pairs' = HeavyPairs(native, heavy)
  /\ pc' = "L51"
  /\ UNCHANGED << traj, native, heavy, heavy_pairs_distances,
                  native_contacts, r, r0, q, stdout, warnings, raised >>

\* Line 51.
NativePairDistances ==
  /\ pc = "L51"
  /\ LET d == compute_distances(FirstFrame(native), heavy_pairs)
     IN IF d.err # "none"
        THEN /\ raised' = d.err
             /\ pc' = "raised"
             /\ UNCHANGED heavy_pairs_distances
        ELSE /\ heavy_pairs_distances' = d.val[1]
             /\ pc' = "L53"
             /\ UNCHANGED raised
  /\ UNCHANGED << traj, native, heavy, heavy_pairs, native_contacts, r, r0, q,
                  stdout, warnings >>

\* Line 53.
FilterContacts ==
  /\ pc = "L53"
  /\ native_contacts' = NativeContacts(heavy_pairs, heavy_pairs_distances)
  /\ pc' = "L54"
  /\ UNCHANGED << traj, native, heavy, heavy_pairs, heavy_pairs_distances,
                  r, r0, q, stdout, warnings, raised >>

\* Line 54.
PrintCount ==
  /\ pc = "L54"
  /\ stdout' = Append(stdout, Len(native_contacts.rows))
  /\ pc' = "L57"
  /\ UNCHANGED << traj, native, heavy, heavy_pairs, heavy_pairs_distances,
                  native_contacts, r, r0, q, warnings, raised >>

Reverse(s) == [i \in 1..Len(s) |-> s[Len(s) + 1 - i]]

\* Mutant of TrajDistances: the rows of r gathered in either frame order.
TrajDistancesAnyOrder ==
  /\ pc = "L57"
  /\ LET d == compute_distances(traj, native_contacts)
     IN IF d.err # "none"
        THEN /\ raised' = d.err
             /\ pc' = "raised"
             /\ UNCHANGED r
        ELSE /\ r' \in {d.val, Reverse(d.val)}
             /\ pc' = "L59"
             /\ UNCHANGED raised
  /\ UNCHANGED << traj, native, heavy, heavy_pairs, heavy_pairs_distances,
                  native_contacts, r0, q, stdout, warnings >>

\* Mutant of TrajDistances: the contacts selected again, by their distances
\* in the first frame of the trajectory.
TrajDistancesReselects ==
  /\ pc = "L57"
  /\ LET d == compute_distances(traj, native_contacts)
     IN IF d.err # "none"
        THEN /\ raised' = d.err
             /\ pc' = "raised"
             /\ UNCHANGED << r, native_contacts >>
        ELSE /\ r' = d.val
             /\ native_contacts' =
                  (IF Len(d.val) = 0 THEN native_contacts
                   ELSE NativeContacts(native_contacts, d.val[1]))
             /\ pc' = "L59"
             /\ UNCHANGED raised
  /\ UNCHANGED << traj, native, heavy, heavy_pairs, heavy_pairs_distances,
                  r0, q, stdout, warnings >>

\* Line 57.
TrajDistances ==
  /\ pc = "L57"
  /\ LET d == compute_distances(traj, native_contacts)
     IN IF d.err # "none"
        THEN /\ raised' = d.err
             /\ pc' = "raised"
             /\ UNCHANGED r
        ELSE /\ r' = d.val
             /\ pc' = "L59"
             /\ UNCHANGED raised
  /\ UNCHANGED << traj, native, heavy, heavy_pairs, heavy_pairs_distances,
                  native_contacts, r0, q, stdout, warnings >>

\* Mutant of NativeContactDistances: the reference distances measured in
\* the first frame of the trajectory.
NativeContactDistancesFromTraj ==
  /\ pc = "L59"
  /\ LET d == compute_distances(IF n_frames(traj) = 0 THEN FirstFrame(native)
                                ELSE FirstFrame(traj), native_contacts)
     IN IF d.err # "none"
        THEN /\ raised' = d.err
             /\ pc' = "raised"
             /\ UNCHANGED r0
        ELSE /\ r0' = d.val
             /\ pc' = "L61"
             /\ UNCHANGED raised
  /\ UNCHANGED << traj, native, heavy, heavy_pairs, heavy_pairs_distances,
                  native_contacts, r, q, stdout, warnings >>

\* Line 59.
NativeContactDistances ==
  /\ pc = "L59"
  /\ LET d == compute_distances(FirstFrame(native), native_contacts)
     IN IF d.err # "none"
        THEN /\ raised' = d.err
             /\ pc' = "raised"
             /\ UNCHANGED r0
        ELSE /\ r0' = d.val
             /\ pc' = "L61"
             /\ UNCHANGED raised
  /\ UNCHANGED << traj, native, heavy, heavy_pairs, heavy_pairs_distances,
                  native_contacts, r, q, stdout, warnings >>

\* Mutant of ComputeQ: the scores taken over all the heavy pairs instead of
\* the retained ones.
ComputeQAllPairs ==
  /\ pc = "L61"
  /\ q' = ScoreRows(compute_distances(traj, heavy_pairs).val,
                    << heavy_pairs_distances >>)
  /\ warnings' = warnings \cup ScoreWarnings(r, r0)
  /\ pc' = "L62"
  /\ UNCHANGED << traj, native, heavy, heavy_pairs, heavy_pairs_distances,
                  native_contacts, r, r0, stdout, raised >>

\* Line 61.
ComputeQ ==
  /\ pc = "L61"
  /\ q' = ScoreRows(r, r0)
  /\ warnings' = warnings \cup ScoreWarnings(r, r0)
  /\ pc' = "L62"
  /\ UNCHANGED << traj, native, heavy, heavy_pairs, heavy_pairs_distances,
                  native_contacts, r, r0, stdout, raised >>

\* Mutant of Return: the call goes back to line 57 instead of returning.
ReturnRepeats ==
  /\ pc = "L62"
  /\ pc' = "L57"
  /\ UNCHANGED << traj, native, heavy, heavy_pairs, heavy_pairs_distances,
                  native_contacts, r, r0, q, stdout, warnings, raised >>

\* Line 62.
Return ==
  /\ pc = "L62"
  /\ pc' = "done"
  /\ UNCHANGED << traj, native, heavy, heavy_pairs, heavy_pairs_distances,
                  native_contacts, r, r0, q, stdout, warnings, raised >>

Next ==
  \/ SelectHeavy
  \/ BuildHeavyPairs
  \/ NativePairDistances
  \/ FilterContacts
  \/ PrintCount
  \/ TrajDistances
  \/ NativeContactDistances
  \/ ComputeQ
  \/ Return

Spec == Init /\ [][Next]_vars

\* The call runs to its end: the interpreter always executes the statement
\* the call has reached (single-threaded, nothing to wait for).
\* The arguments are the scenario, multi-frame and mismatched inputs and the
\* native structures without two heavy atoms far apart in sequence: calls
\* that return, calls that raise at line 57 and calls that raise at line 51.
FairInit ==
  InitWith(ScenarioInputs \cup MultiFrameInputs \cup MismatchInputs
           \cup CloseResidueInputs)
FairSpec == FairInit /\ [][Next]_vars /\ WF_vars(Next)

\* The parameters of the call (line 14).
Parameters == { "traj", "native" }

(***************************************************************************)
(* Properties.                                                             *)
(***************************************************************************)
\* The scores exist once line 61 has run.
Scored == pc \in {"L62", "done"}
\* The call has ended, by return or by an exception.
Ended == pc \in {"done", "raised"}
Contacts == native_contacts.rows
NContacts == Len(native_contacts.rows)
\* The score of contact k in frame f, from the arrays r and r0.
PairScore(f, k) == Sigmoid(r[f][k], r0[1][k])
InUnitInterval(a) == FLe(Zero, a) /\ FLe(a, One)
OverflowAt(f, k) == ExpArg(r[f][k], r0[1][k]) > ExpOverflowArg

\* C1: on return, the score of every frame f is the arithmetic mean, over
\* the retained native contacts p, of 1 / (1 + exp(beta * (r_f[p] -
\* lambda * r0[p]))), r_f[p] being p's distance in frame f of the trajectory
\* and r0[p] its distance in the first native frame.
C1_ScoreIsMeanOfSigmoids ==
  pc = "done" =>
    \A f \in 1..n_frames(traj) :
      q[f] = FDiv(FSum([k \in 1..NContacts |->
                          FDiv(One, FAdd(One, FExp(
                            BETA_CONST * (LAMBDA_CONST_DEN * PairDist(traj.xyz[f], Contacts[k])
                                          - LAMBDA_CONST_NUM * PairDist(native.xyz[1], Contacts[k])))))]),
                  FromInt(NContacts))

C1_Witness ==
  /\ pc = "done"
  /\ SameTopology(traj, native)
  /\ NContacts >= 2
  /\ n_frames(traj) >= 2
  /\ q[1] # q[2]
  /\ IsFin(q[1]) /\ IsFin(q[2])

\* C2: every pair (i, j) of the native contact set has residue indices more
\* than RESIDUE_SEPARATION apart and a distance in the first native frame
\* strictly below NATIVE_CUTOFF.
C2_ContactsAreFarApartAndClose ==
  \A k \in 1..NContacts :
    /\ Abs(native.residue[Contacts[k][1] + 1] - native.residue[Contacts[k][2] + 1])
         > RESIDUE_SEPARATION
    /\ Dist(native.xyz[1][Contacts[k][1] + 1], native.xyz[1][Contacts[k][2] + 1])
         < NATIVE_CUTOFF

C2_Witness ==
  /\ pc = "done"
  /\ NContacts >= 1
  /\ Len(heavy_pairs.rows) > NContacts
  /\ Len(combinations(heavy)) > Len(heavy_pairs.rows)

\* C3: on return, q holds one score per frame of the trajectory, in frame
\* order: its k-th element is the score of the k-th frame.
C3_OneScorePerFrameInOrder ==
  pc = "done" =>
    /\ Len(q) = n_frames(traj)
    /\ \A k \in 1..n_frames(traj) :
         q[k] = best_hummer_q([traj EXCEPT !.xyz = << traj.xyz[k] >>], native).q[1]

C3_Witness ==
  /\ pc = "done"
  /\ n_frames(traj) = 2
  /\ NContacts = 3
  /\ FLt(q[2], q[1])

\* C4 (as claimed): every per-pair score and every per-frame score lies in
\* the closed interval [0, 1].
C4_ScoresInUnitInterval ==
  Scored =>
    /\ \A f \in 1..Len(r) : \A k \in 1..NContacts : InUnitInterval(PairScore(f, k))
    /\ \A f \in 1..Len(q) : InUnitInterval(q[f])

\* C5 (as claimed): when the native contact set is empty, the call returns
\* and reports 0 for every frame of the trajectory.
C5_EmptyContactSetScoresZero ==
  (Ended /\ NContacts = 0) =>
    /\ pc = "done"
    /\ Len(q) = n_frames(traj)
    /\ \A f \in 1..Len(q) : q[f] = Zero

\* C6 (as claimed): with a trajectory whose atom count or residue mapping
\* differs from the native structure's, the call ends with an error, having
\* computed no distance in the trajectory and no score.
C6_MismatchRejected ==
  (Ended /\ ~SameTopology(traj, native)) =>
    pc = "raised" /\ r = << >> /\ q = << >>

\* C7 (as claimed): when the argument of exp is too large for exp, the call
\* does not raise, exp is not evaluated unchecked (no overflow is signalled),
\* the pair's score is 0 and the frame's score is computed.
C7_OverflowGuarded ==
  Scored =>
    \A f \in 1..Len(r) : \A k \in 1..NContacts :
      OverflowAt(f, k) =>
        /\ raised = "none"
        /\ PairScore(f, k) = Zero
        /\ Len(q) = Len(r)
        /\ "overflow encountered in exp" \notin warnings

\* The trajectory is the first frame of the native structure.
Reflexive == SameTopology(traj, native) /\ traj.xyz = << native.xyz[1] >>

\* C9 (as claimed): scoring the native structure's own first frame, every
\* retained pair has r_f[p] = r0[p] and a score strictly above 0.5.
C9_ReflexiveStrictlyAboveHalf ==
  (Scored /\ Reflexive) =>
    \A k \in 1..NContacts : r[1][k] = r0[1][k] /\ FLt(Half, PairScore(1, k))

\* C9 (amended): scoring the native structure's own first frame, every
\* retained pair has r_f[p] = r0[p] and a score of at least 0.5, strictly
\* above 0.5 when the pair's native distance is positive (distances count
\* picometres here: at least 0.001 nm).
C9_ReflexiveAtLeastHalf ==
  (Scored /\ Reflexive) =>
    \A k \in 1..NContacts :
      /\ r[1][k] = r0[1][k]
      /\ FLe(Half, PairScore(1, k))
      /\ r0[1][k] > 0 => FLt(Half, PairScore(1, k))

C9_Witness ==
  /\ pc = "done"
  /\ Reflexive
  /\ NContacts >= 2
  /\ \E k \in 1..NContacts : r0[1][k] > 0 /\ FLt(Half, PairScore(1, k))
  /\ \E k \in 1..NContacts : r0[1][k] = 0 /\ PairScore(1, k) = Half

\* C10 (as claimed): for a fixed native distance of a pair, its score is a
\* strictly decreasing function of its frame distance.
C10_StrictlyDecreasing ==
  Scored =>
    \A f \in 1..Len(r) : \A g \in 1..Len(r) : \A k \in 1..NContacts :
      r[f][k] < r[g][k] => FLt(PairScore(g, k), PairScore(f, k))

\* C10 (amended): for a fixed native distance of a pair, its score is a
\* non-increasing function of its frame distance.
C10_NonIncreasing ==
  Scored =>
    \A f \in 1..Len(r) : \A g \in 1..Len(r) : \A k \in 1..NContacts :
      r[f][k] < r[g][k] => FLe(PairScore(g, k), PairScore(f, k))

C10_Witness ==
  /\ pc = "done"
  /\ Len(r) >= 2
  /\ \E k \in 1..NContacts :
       /\ r[1][k] < r[2][k]
       /\ FLt(PairScore(2, k), PairScore(1, k))
       /\ FLt(Zero, PairScore(2, k))
       /\ FLt(PairScore(1, k), One)

\* C11: the call is deterministic: how it ends and what it returns are a
\* function of its arguments alone, so two calls on identical (trajectory,
\* native structure) arguments end alike and return identical sequences.
C11_Deterministic ==
  Ended =>
    /\ raised = best_hummer_q(traj, native).raised
    /\ q = best_hummer_q(traj, native).q

C11_Witness ==
  /\ pc = "done"
  /\ Len(q) = 2
  /\ NContacts >= 1
  /\ q[1] # q[2]
  /\ q = best_hummer_q(traj, native).q

\* The permutations of 1..n and a sequence rearranged by one.
Perms(n) == { p \in [1..n -> 1..n] : \A i \in 1..n : \A j \in 1..n : i # j => p[i] # p[j] }
Permute(s, p) == [i \in 1..Len(s) |-> s[p[i]]]

\* C12: for every permutation of the frames of the trajectory, the call on
\* the permuted trajectory returns the original scores permuted in the same
\* way, every value unchanged.
C12_FramePermutation ==
  pc = "done" =>
    \A p \in Perms(n_frames(traj)) :
      LET other == best_hummer_q([traj EXCEPT !.xyz = Permute(traj.xyz, p)], native)
      IN other.raised = "none" /\ other.q = Permute(q, p)

C12_Witness ==
  /\ pc = "done"
  /\ n_frames(traj) = 2
  /\ traj.xyz[1] # traj.xyz[2]
  /\ NContacts >= 1
  /\ q[1] # q[2]
  /\ best_hummer_q([traj EXCEPT !.xyz = Reverse(traj.xyz)], native).q = << q[2], q[1] >>

\* The native structure with its later frames replaced by the frames of
\* the sequence later.
WithLaterFrames(nat, later) == [nat EXCEPT !.xyz = << nat.xyz[1] >> \o later]

\* C13: only the first frame of the native structure is read: a native
\* structure of the same topology and first frame, with no later frame or
\* with any other later frame, yields the same native contact set, the same
\* r0 and the same scores for the trajectory.
C13_OnlyFirstNativeFrameRead ==
  (Ended /\ n_frames(native) >= 2) =>
    \A later \in {<< >>} \cup { << fr >> : fr \in [1..n_atoms(native) -> NativePts] } :
      LET other == WithLaterFrames(native, later)
      IN /\ select_native_contacts(other) = [err |-> "none", pairs |-> Contacts]
         /\ compute_distances(FirstFrame(other), native_contacts).val = r0
         /\ best_hummer_q(traj, other) = [raised |-> raised, q |-> q]

C13_Witness ==
  /\ pc = "done"
  /\ n_frames(native) = 2
  /\ native.xyz[1] # native.xyz[2]
  /\ NContacts >= 1
  /\ Len(q) = 1
  /\ select_native_contacts([native EXCEPT !.xyz = << native.xyz[2] >>]).pairs # Contacts

\* C14 (as claimed): the call has no side effects: no step changes the
\* trajectory or the native structure, and nothing is observable outside
\* the call besides the one report of the size of the native contact set;
\* in particular nothing is written to the warning stream.
C14_NoSideEffects ==
  [][ /\ traj' = traj
      /\ native' = native
      /\ warnings' = warnings
      /\ stdout' # stdout =>
            stdout = << >> /\ stdout' = << Len(native_contacts.rows) >> ]_vars

\* a lies in the closed interval [lo, hi].
Between(a, lo, hi) == FLe(lo, a) /\ FLe(a, hi)
\* Two of the candidate pairs (heavy atoms far apart in sequence) have the
\* native distances d1 and d2.
CandidatesAt(d1, d2) ==
  \E a \in 1..Len(heavy_pairs_distances) : \E b \in 1..Len(heavy_pairs_distances) :
    a # b /\ heavy_pairs_distances[a] = d1 /\ heavy_pairs_distances[b] = d2
\* The scores of the literal scenario, within 0.000001: 0.999994 for the
\* first pair, 1.0 for the second, 0.999997 for the frame.
ScenarioScores ==
  /\ Between(PairScore(1, 1), F(9999930, 0 - 1), F(9999950, 0 - 1))
  /\ Between(PairScore(1, 2), F(9999990, 0 - 1), One)
  /\ Between(q[1], F(9999960, 0 - 1), F(9999980, 0 - 1))

TenTimesScaled(f, k) ==
  LAMBDA_CONST_DEN * r[f][k] = 10 * LAMBDA_CONST_NUM * r0[1][k]
\* Approximately 0: at most 0.000001.
NearZero(a) == FLe(a, F(MantLo, 0 - 6))

\* C16 (as claimed): every retained pair whose frame distance is 10 times
\* its tolerance-scaled native distance has a score of approximately 0, and
\* the call raises no error.
C16_TenTimesScoresZero ==
  Scored =>
    \A f \in 1..Len(r) : \A k \in 1..NContacts :
      TenTimesScaled(f, k) => raised = "none" /\ NearZero(PairScore(f, k))

\* C16 (amended): every retained pair whose native distance is at least
\* 0.02 nm and whose frame distance is 10 times its tolerance-scaled native
\* distance has a score of approximately 0 (at most 0.000001), and the call
\* raises no exception.
C16_TenTimesScoresZeroFromTwentyPm ==
  Scored =>
    \A f \in 1..Len(r) : \A k \in 1..NContacts :
      (TenTimesScaled(f, k) /\ r0[1][k] >= 20) =>
        raised = "none" /\ NearZero(PairScore(f, k))

C16_Witness ==
  /\ pc = "done"
  /\ Len(r) = 1
  /\ \E k \in 1..NContacts :
       /\ TenTimesScaled(1, k) /\ r0[1][k] >= 20
       /\ OverflowAt(1, k) /\ PairScore(1, k) = Zero
  /\ \E k \in 1..NContacts :
       /\ TenTimesScaled(1, k) /\ r0[1][k] >= 20
       /\ ~OverflowAt(1, k) /\ FLt(Zero, PairScore(1, k)) /\ NearZero(PairScore(1, k))

\* No two heavy atoms of the native structure are far apart in sequence.
NoFarApartHeavyPair ==
  \A a \in 1..Len(heavy) : \A b \in 1..Len(heavy) :
    a < b => ~FarApart(native, << heavy[a], heavy[b] >>)

\* C17 (as claimed): for a native structure with several heavy atoms, all
\* within RESIDUE_SEPARATION residues of each other, the selection of the
\* native contacts completes and yields an empty set: the call does not
\* fail.
C17_CloseResiduesGiveEmptySet ==
  (Ended /\ Len(heavy) >= 2 /\ NoFarApartHeavyPair) =>
    /\ raised = "none"
    /\ native_contacts = [ndim |-> 2, rows |-> << >>]
    /\ stdout = << 0 >>

\* C18 (as claimed): the configuration is overridable, that is, each of its
\* values reaches the call as a parameter, and with nothing overridden it is
\* beta = 50, lambda_factor = 1.8, native_cutoff = 0.45 nm and a minimum
\* residue separation of 3.
C18_ConfigurationOverridable ==
  pc = "L42" =>
    /\ { "BETA_CONST", "LAMBDA_CONST", "NATIVE_CUTOFF" } \subseteq Parameters
    /\ BETA_CONST = 50
    /\ LAMBDA_CONST_NUM * 10 = 18 * LAMBDA_CONST_DEN
    /\ NATIVE_CUTOFF * 100 = 45 * 1000
    /\ RESIDUE_SEPARATION = 3

\* The position of the call: the statements in order, then the end.
Rank(p) ==
  CASE p = "L42" -> 1 [] p = "L45" -> 2 [] p = "L51" -> 3 [] p = "L53" -> 4
    [] p = "L54" -> 5 [] p = "L57" -> 6 [] p = "L59" -> 7 [] p = "L61" -> 8
    [] p = "L62" -> 9 [] OTHER -> 10
\* The arrays the statements work on: at most one row per pair of heavy
\* atoms, and one entry per frame and retained pair.
WorkBounded ==
  /\ 2 * Len(heavy_pairs.rows) <= Len(heavy) * (Len(heavy) - 1) \/ Len(heavy) = 0
  /\ NContacts <= Len(heavy_pairs.rows)
  /\ Len(r) \in {0, n_frames(traj)}
  /\ \A f \in 1..Len(r) : Len(r[f]) = NContacts
  /\ \A f \in 1..Len(r0) : Len(r0[f]) = NContacts
  /\ Len(q) \in {0, n_frames(traj)}

\* C19: every call ends, by returning or by raising; each step moves on to a
\* later statement, so the call takes at most one step per statement, and
\* the arrays a statement works on hold at most one entry per frame and
\* pair.
C19_Terminates ==
  /\ <>Ended
  /\ [][Rank(pc') > Rank(pc)]_vars
  /\ []WorkBounded

C19_Witness ==
  /\ pc = "done"
  /\ Len(r) = 1
  /\ NContacts = 3
  /\ Len(r[1]) = 3
  /\ stdout = << 3 >>

\* How often the pair <<i, j>> occurs among the native contacts.
Occurrences(i, j) == Cardinality({ k \in 1..NContacts : Contacts[k] = << i, j >> })
\* Atoms i < j are heavy, more than RESIDUE_SEPARATION residues apart and
\* closer than NATIVE_CUTOFF in the first native frame.
Qualifies(i, j) ==
  /\ i < j
  /\ native.heavy[i + 1] /\ native.heavy[j + 1]
  /\ Abs(native.residue[i + 1] - native.residue[j + 1]) > RESIDUE_SEPARATION
  /\ Dist(native.xyz[1][i + 1], native.xyz[1][j + 1]) < NATIVE_CUTOFF

\* C20: once the native contacts are selected, every pair of heavy atoms
\* (i, j), i < j, more than RESIDUE_SEPARATION residues apart and closer
\* than NATIVE_CUTOFF in the first native frame occurs among them exactly
\* once; a pair exactly RESIDUE_SEPARATION residues apart, or exactly
\* NATIVE_CUTOFF apart, does not occur.
C20_SelectionComplete ==
  Rank(pc) >= 5 /\ pc # "raised" =>
    \A i \in 0..(n_atoms(native) - 1) : \A j \in 0..(n_atoms(native) - 1) :
      Occurrences(i, j) = IF Qualifies(i, j) THEN 1 ELSE 0

C20_Witness ==
  /\ pc = "done"
  /\ \E i \in 0..(n_atoms(native) - 1) : \E j \in 0..(n_atoms(native) - 1) :
       /\ Qualifies(i, j) /\ Occurrences(i, j) = 1
       /\ Abs(native.residue[i + 1] - native.residue[j + 1]) = RESIDUE_SEPARATION + 1
  /\ \E i \in 0..(n_atoms(native) - 1) : \E j \in 0..(n_atoms(native) - 1) :
       /\ i < j /\ native.heavy[i + 1] /\ native.heavy[j + 1]
       /\ Abs(native.residue[i + 1] - native.residue[j + 1]) = RESIDUE_SEPARATION
       /\ Occurrences(i, j) = 0
  /\ \E i \in 0..(n_atoms(native) - 1) : \E j \in 0..(n_atoms(native) - 1) :
       /\ i < j /\ native.heavy[i + 1] /\ native.heavy[j + 1]
       /\ Abs(native.residue[i + 1] - native.residue[j + 1]) > RESIDUE_SEPARATION
       /\ Dist(native.xyz[1][i + 1], native.xyz[1][j + 1]) = NATIVE_CUTOFF
       /\ Occurrences(i, j) = 0

\* Places to move an atom to: onto the first atom, and NATIVE_CUTOFF away
\* from it.
Elsewhere == { Origin, << 450, 0, 0 >> }

\* The structure s with every atom that is a hydrogen of the native
\* structure placed at the point p, in every frame.
HydrogensAt(s, p) ==
  [s EXCEPT !.xyz =
     [f \in 1..Len(s.xyz) |->
        [i \in 1..Len(s.xyz[f]) |->
           IF i <= n_atoms(native) /\ ~native.heavy[i] THEN p ELSE s.xyz[f][i]]]]

\* C21: every pair of the native contact set is a pair (i, j), i < j, of
\* indices of heavy atoms, so no hydrogen's index occurs in a pair; and the
\* hydrogens' coordinates do not influence the outcome: with the hydrogens
\* placed anywhere else, in the trajectory and in the native structure, the
\* call ends alike and returns the same scores.
C21_HeavyAtomsOnly ==
  /\ \A k \in 1..NContacts :
       /\ Contacts[k][1] < Contacts[k][2]
       /\ \A c \in 1..2 :
            /\ Contacts[k][c] \in 0..(n_atoms(native) - 1)
            /\ native.heavy[Contacts[k][c] + 1]
  /\ (Ended /\ \E i \in 1..n_atoms(native) : ~native.heavy[i]) =>
       \A p \in Elsewhere :
         best_hummer_q(HydrogensAt(traj, p), HydrogensAt(native, p))
           = [raised |-> raised, q |-> q]

C21_Witness ==
  /\ pc = "done"
  /\ NContacts >= 1
  /\ \E i \in 1..n_atoms(native) : \E j \in 1..n_atoms(native) :
       /\ ~native.heavy[i] /\ native.heavy[j]
       /\ Abs(native.residue[i] - native.residue[j]) > RESIDUE_SEPARATION
       /\ Dist(native.xyz[1][i], native.xyz[1][j]) < NATIVE_CUTOFF

\* Both distance arrays r and r0 have been computed.
DistancesTaken == pc \in {"L61", "L62", "done"}
\* The row of heavy_pairs that holds the pair pr.
RowOf(pr) == CHOOSE i \in 1..Len(heavy_pairs.rows) : heavy_pairs.rows[i] = pr
\* The pair a comes before the pair b in the enumeration of the heavy pairs
\* (combinations of the ascending heavy indices: lexicographic order).
PairBefore(a, b) == a[1] < b[1] \/ (a[1] = b[1] /\ a[2] < b[2])

\* C22: the native contacts keep the order of the enumeration of the heavy
\* pairs: every retained pair is a row of heavy_pairs, and of two retained
\* pairs the one enumerated first comes first; and the scoring uses the
\* array as it is: column k of r and of r0 is the distance of the k-th
\* retained pair, and the score of a frame is the mean over the columns in
\* that order.
C22_FilterKeepsOrder ==
  /\ \A k \in 1..NContacts :
       /\ \E i \in 1..Len(heavy_pairs.rows) : heavy_pairs.rows[i] = Contacts[k]
       /\ \A l \in (k + 1)..NContacts :
            /\ RowOf(Contacts[k]) < RowOf(Contacts[l])
            /\ PairBefore(Contacts[k], Contacts[l])
  /\ DistancesTaken =>
       /\ r0 = << [k \in 1..NContacts |-> PairDist(native.xyz[1], Contacts[k])] >>
       /\ r = [f \in 1..n_frames(traj) |->
                [k \in 1..NContacts |-> PairDist(traj.xyz[f], Contacts[k])]]
  /\ Scored =>
       q = [f \in 1..n_frames(traj) |->
              FMean([k \in 1..NContacts |-> PairScore(f, k)])]

\* Three heavy pairs of which the middle one is dropped; the two retained
\* ones have different distances in the frame scored.
C22_Witness ==
  /\ pc = "done"
  /\ Len(heavy_pairs.rows) = 3
  /\ Contacts = << << 0, 1 >>, << 1, 2 >> >>
  /\ n_frames(traj) >= 1
  /\ r[1][1] # r[1][2]
  /\ r0[1][1] # r0[1][2]

\* C23: within one call the native contact set is derived once, from the
\* native structure alone: once assigned it is the selection made from
\* native whatever the trajectory is, it is assigned by line 53 only and
\* never changes afterwards, and every frame's row of r holds the distances
\* of that same set of pairs.
C23_ContactSetFixed ==
  /\ [](native_contacts # NoArray =>
          /\ select_native_contacts(native).err = "none"
          /\ Contacts = select_native_contacts(native).pairs
          /\ (DistancesTaken =>
                \A f \in 1..n_frames(traj) :
                  /\ Len(r[f]) = Len(select_native_contacts(native).pairs)
                  /\ \A k \in 1..Len(r[f]) :
                       r[f][k] = PairDist(traj.xyz[f],
                                          select_native_contacts(native).pairs[k])))
  /\ [][native_contacts' # native_contacts =>
          pc = "L53" /\ native_contacts = NoArray]_vars

\* Two frames scored on two or more contacts, one of them wider than
\* NATIVE_CUTOFF in the first frame of the trajectory.
C23_Witness ==
  /\ pc = "done"
  /\ n_frames(traj) = 2
  /\ NContacts >= 2
  /\ r[1] # r[2]
  /\ \E k \in 1..NContacts : r[1][k] >= NATIVE_CUTOFF

\* The trajectory of the frames fr, on the topology of traj.
TrajOf(fr) == [traj EXCEPT !.xyz = fr]
\* Frames to put next to a frame of traj: the frames of traj stretched by
\* the factor 2.
Companions == { Scaled(traj.xyz[g], 2) : g \in 1..n_frames(traj) }
\* The frames of traj, each one between two copies of the frame c.
Interleaved(c) ==
  [i \in 1..(2 * n_frames(traj) + 1) |->
     IF i % 2 = 1 THEN c ELSE traj.xyz[i \div 2]]

\* C24: a frame's score depends on that frame's coordinates and the native
\* structure only: the score frame f gets in the call is the score it gets
\* when scored alone, and the score it gets in a longer trajectory where
\* other frames come before and after it.
C24_FrameIndependent ==
  pc = "done" =>
    /\ \A f \in 1..n_frames(traj) :
         best_hummer_q(TrajOf(<< traj.xyz[f] >>), native).q = << q[f] >>
    /\ \A c \in Companions :
         LET longer == best_hummer_q(TrajOf(Interleaved(c)), native).q
         IN \A f \in 1..n_frames(traj) : longer[2 * f] = q[f]

\* Two frames with different scores were scored.
C24_Witness ==
  /\ pc = "done"
  /\ n_frames(traj) = 2
  /\ NContacts >= 2
  /\ IsFin(q[1]) /\ IsFin(q[2])
  /\ q[1] # q[2]

\* C25: r0 is aligned with r pair by pair: r0 has one row, and that row and
\* every row of r have one column per retained pair, in the order of
\* native_contacts; column p of r0 is the distance by which pair p was
\* admitted by the filter, the entry of heavy_pairs_distances at the pair's
\* row of heavy_pairs; hence every entry of r0 is below NATIVE_CUTOFF.
C25_ReferenceDistancesAligned ==
  DistancesTaken =>
    /\ Len(r0) = 1
    /\ Len(r0[1]) = NContacts
    /\ \A f \in 1..Len(r) : Len(r[f]) = Len(r0[1])
    /\ \A p \in 1..NContacts :
         /\ \A f \in 1..Len(r) : r[f][p] = PairDist(traj.xyz[f], Contacts[p])
         /\ r0[1][p] = heavy_pairs_distances[RowOf(Contacts[p])]
         /\ r0[1][p] < NATIVE_CUTOFF

\* Two retained pairs admitted by different distances, after a pair that
\* was not admitted; the frame scored is not the native one.
C25_Witness ==
  /\ pc = "done"
  /\ NContacts = 2
  /\ Len(heavy_pairs.rows) = 3
  /\ heavy_pairs_distances[1] >= NATIVE_CUTOFF
  /\ r0[1][1] # r0[1][2]
  /\ n_frames(traj) >= 1
  /\ r[1] # r0[1]

\* No retained pair is wider in frame a than in frame b.
NowhereWider(a, b) == \A k \in 1..NContacts : r[a][k] <= r[b][k]
\* Some retained pair is narrower in frame a than in frame b.
SomewhereNarrower(a, b) == \E k \in 1..NContacts : r[a][k] < r[b][k]

\* C26 as stated: with a non-empty contact set, a frame in which no retained
\* pair is wider than in another frame scores at least as much, and scores
\* strictly more when some retained pair is strictly narrower.
C26_StrictlyMonotone ==
  (Scored /\ NContacts >= 1) =>
    \A a \in 1..n_frames(traj) : \A b \in 1..n_frames(traj) :
      NowhereWider(a, b) =>
        /\ FLe(q[b], q[a])
        /\ SomewhereNarrower(a, b) => FLt(q[b], q[a])

\* C26: with a non-empty contact set, a frame in which no retained pair is
\* wider than in another frame scores at least as much as that frame.
C26_Monotone ==
  (Scored /\ NContacts >= 1) =>
    \A a \in 1..n_frames(traj) : \A b \in 1..n_frames(traj) :
      NowhereWider(a, b) => FLe(q[b], q[a])

\* Two frames on two or more contacts: one pair narrower, none wider, and
\* the score strictly higher.
C26_Witness ==
  /\ pc = "done"
  /\ n_frames(traj) = 2
  /\ NContacts >= 2
  /\ \E a \in 1..2 : \E b \in 1..2 :
       /\ NowhereWider(a, b)
       /\ SomewhereNarrower(a, b)
       /\ \E k \in 1..NContacts : r[a][k] = r[b][k]
       /\ FLt(q[b], q[a])

Uninvolved(i) == \A k \in 1..NContacts : \A c \in 1..2 : Contacts[k][c] # i - 1
\* The frames of traj with the atoms that are in no retained pair at p.
UninvolvedAt(p) ==
  [f \in 1..n_frames(traj) |->
     [i \in 1..Len(traj.xyz[f]) |-> IF Uninvolved(i) THEN p ELSE traj.xyz[f][i]]]

\* C28: a frame's score depends on the coordinates only through the
\* distances of the retained pairs: two frames of the call with the same
\* retained-pair distances have the same score, and the scores are the ones
\* returned for the frames with the atoms that are in no retained pair
\* placed anywhere else.
C28_OnlyRetainedDistancesCount ==
  pc = "done" =>
    /\ \A f \in 1..n_frames(traj) : \A g \in 1..n_frames(traj) :
         r[f] = r[g] => q[f] = q[g]
    /\ \A p \in Elsewhere :
         best_hummer_q(TrajOf(UninvolvedAt(p)), native)
           = [raised |-> "none", q |-> q]

\* Two frames that differ only in the position of a heavy atom that is in
\* no retained pair, and have the same score.
C28_Witness ==
  /\ pc = "done"
  /\ n_frames(traj) = 2
  /\ NContacts >= 1
  /\ r[1] = r[2]
  /\ \E i \in 1..n_atoms(native) :
       /\ Uninvolved(i)
       /\ native.heavy[i]
       /\ traj.xyz[1][i] # traj.xyz[2][i]
       /\ \A j \in 1..n_atoms(native) : j # i => traj.xyz[1][j] = traj.xyz[2][j]
  /\ IsFin(q[1])
  /\ q[1] = q[2]

=============================================================================
